---- MODULE Spec2Model ----
(***************************************************************************)
(* Document abstraction and navigation core of the ebook reader:           *)
(*   reader.DocumentManager and the PDF / EPUB / MOBI readers, and the      *)
(*   view state (page, zoom, fit mode) of modernui.ModernApplication.       *)
(*                                                                         *)
(* Strings are sequences of one-character strings, so that filepath.Ext    *)
(* and strings.ToLower are computed and not assumed.  Zoom levels are      *)
(* exact rationals <<n, d>> in lowest terms (float64 rounding is not        *)
(* modelled; 1.2 is 6/5, 0.2 is 1/5, 0.1 is 1/10).                          *)
(***************************************************************************)
EXTENDS Integers, Sequences, FiniteSets, TLC

VARIABLES
    document,        \* DocumentManager.document: a Document record, or Nil
    filename,        \* DocumentManager.filename: a path, <<>> when empty
    leaked,          \* open engine/archive handles of Documents no longer owned
    panicked,        \* the process has died of a run-time panic
    currentPage,     \* ModernApplication.currentPage
    zoomLevel,       \* ModernApplication.zoomLevel, a rational <<n, d>>
    fitMode,         \* ModernApplication.fitMode: "page", "width", "custom"
    scrollZoomMode,  \* ModernApplication.scrollZoomMode
    pdfImage,        \* ModernApplication.pdfImage # nil
    navEnabled,      \* the navigation controls (page entry) are enabled
    zoomOps,         \* relative zoom steps taken since the level was last set outright
    ret,             \* the last call: [op, arg, err, modal]
    probe            \* the file at the paths r.mobi and r.epub

vars == <<document, filename, leaked, panicked, currentPage, zoomLevel, fitMode,
          scrollZoomMode, pdfImage, navEnabled, zoomOps, ret, probe>>

dmVars == <<document, filename, leaked>>
viewVars == <<currentPage, zoomLevel, fitMode, scrollZoomMode, pdfImage, navEnabled, zoomOps>>

Nil == "nil"

----------------------------------------------------------------------------
(* Bounds of the model *)

\* unowned open handles counted before further reloads are cut off
MaxLeaked == 2
\* relative zoom steps (zoomIn, zoomOut, wheel) allowed after an absolute one
MaxZoomOps == 1
\* page arguments tried beyond either end of a document
PageMargin == 1

----------------------------------------------------------------------------
(* Rationals for float64 zoom levels *)

RECURSIVE Gcd(_, _)
Gcd(a, b) == IF b = 0 THEN a ELSE Gcd(b, a % b)

Abs(x) == IF x < 0 THEN -x ELSE x

Rat(n, d) ==
    LET s == IF d < 0 THEN -1 ELSE 1
        g == Gcd(Abs(n), Abs(d))
    IN  <<(s * n) \div g, (s * d) \div g>>

RMul(x, y) == Rat(x[1] * y[1], x[2] * y[2])
RDiv(x, y) == Rat(x[1] * y[2], x[2] * y[1])
RAdd(x, y) == Rat(x[1] * y[2] + y[1] * x[2], x[2] * y[2])
RLess(x, y) == x[1] * y[2] < y[1] * x[2]
RLeq(x, y) == x[1] * y[2] <= y[1] * x[2]

ZoomMin == Rat(1, 10)
ZoomMax == Rat(5, 1)
ZoomStep == Rat(6, 5)
WheelStep == Rat(1, 5)
One == Rat(1, 1)

----------------------------------------------------------------------------
(* Strings: filepath.Ext and strings.ToLower *)

UpperChars == <<"A","B","C","D","E","F","G","H","I","J","K","L","M",
                "N","O","P","Q","R","S","T","U","V","W","X","Y","Z">>
LowerChars == <<"a","b","c","d","e","f","g","h","i","j","k","l","m",
                "n","o","p","q","r","s","t","u","v","w","x","y","z">>

LowerChar(c) ==
    IF \E i \in 1..26 : UpperChars[i] = c
    THEN LowerChars[CHOOSE i \in 1..26 : UpperChars[i] = c]
    ELSE c

ToLower(s) == [i \in 1..Len(s) |-> LowerChar(s[i])]

\* filepath.Ext: the suffix beginning at the final dot of the final path element
RECURSIVE ExtFrom(_, _)
ExtFrom(path, i) ==
    IF i < 1 \/ path[i] = "/" THEN <<>>
    ELSE IF path[i] = "." THEN SubSeq(path, i, Len(path))
    ELSE ExtFrom(path, i - 1)

Ext(path) == ExtFrom(path, Len(path))

ExtPdf == <<".", "p", "d", "f">>
ExtEpub == <<".", "e", "p", "u", "b">>
ExtMobi == <<".", "m", "o", "b", "i">>

GetSupportedFormats == <<ExtPdf, ExtEpub, ExtMobi>>

IsSupportedFormat(name) ==
    LET ext == ToLower(Ext(name))
    IN  \E i \in 1..Len(GetSupportedFormats) : ext = GetSupportedFormats[i]

----------------------------------------------------------------------------
(* Documents *)

TypePDF == "PDF"
TypeEPUB == "EPUB"
TypeMOBI == "MOBI"

\* The nil Document; the fields exist only to keep the values comparable.
NilDoc == [type |-> Nil, currentPage |-> 0, pageCount |-> 0, pages |-> <<>>,
           handle |-> FALSE, bad |-> {}]

\* results of a constructor: a Document, an error, or a run-time panic
Ok(doc) == [kind |-> "ok", doc |-> doc, err |-> "nil"]
Err(msg) == [kind |-> "err", doc |-> NilDoc, err |-> msg]
Panic == [kind |-> "panic", doc |-> NilDoc, err |-> "panic"]

\* A page of text: the tokens of an EPUB chapter, or the words (their lengths)
\* of a MOBI chunk, joined by single spaces.
TextPage(tokens) == [text |-> tokens, words |-> <<>>]
WordPage(ws) == [text |-> <<>>, words |-> ws]

(* PDF.  The rendering engine is a black box: whether it opens the file,   *)
(* the page count it reports and the pages it cannot rasterize are the     *)
(* file's properties.                                                      *)
NewPDFDocument(file) ==
    IF ~file.fitzOpens THEN Err("failed to open PDF file")
    ELSE Ok([type |-> TypePDF, currentPage |-> 1, pageCount |-> file.numPage,
             pages |-> <<>>, handle |-> TRUE, bad |-> file.unrenderable])

----------------------------------------------------------------------------
(* EPUB.  An archive is described by what the reader looks at: whether it   *)
(* opens as a ZIP, its container.xml, its OPF (manifest and spine) and the  *)
(* HTML of its content files, a sequence of tokens: a tag, an entity, a     *)
(* white-space character or a letter.                                      *)

WhiteSpace == {" ", "\n", "\t", "\r"}
ScriptOpen == {"<script>", "<style>"}
Tags == {"<script>", "</script>", "<style>", "</style>", "<p>", "</p>", "<br/>"}
HtmlMediaTypes == {"application/xhtml+xml", "text/html"}

CloseOf(tag) == IF tag = "<script>" THEN "</script>" ELSE "</style>"

\* regexp.MustCompile(`(?s)<(script|style)[^>]*>.*?</\1>`): Go's regexp syntax
\* has no back-references, `\1` is an invalid escape sequence, and MustCompile
\* panics on a pattern that does not compile.
ScriptStylePatternCompiles == FALSE

\* what the pattern is meant to delete: a script/style element up to its end tag
RECURSIVE RemoveScriptStyle(_)
RemoveScriptStyle(html) ==
    IF html = <<>> THEN <<>>
    ELSE IF Head(html) \in ScriptOpen
              /\ \E j \in 2..Len(html) : html[j] = CloseOf(Head(html))
         THEN LET j == CHOOSE k \in 2..Len(html) :
                          /\ html[k] = CloseOf(Head(html))
                          /\ \A m \in 2..(k - 1) : html[m] # CloseOf(Head(html))
              IN  RemoveScriptStyle(SubSeq(html, j + 1, Len(html)))
         ELSE <<Head(html)>> \o RemoveScriptStyle(Tail(html))

\* `<[^>]*>` replaced by a space
StripTags(html) == [i \in 1..Len(html) |-> IF html[i] \in Tags THEN " " ELSE html[i]]

\* html.UnescapeString
UnescapeString(text) ==
    [i \in 1..Len(text) |->
        CASE text[i] = "&amp;" -> "&"
          [] text[i] = "&lt;" -> "<"
          [] text[i] = "&gt;" -> ">"
          [] OTHER -> text[i]]

\* `\s+` replaced by one space
RECURSIVE CollapseSpace(_)
CollapseSpace(text) ==
    IF text = <<>> THEN <<>>
    ELSE IF Head(text) \in WhiteSpace
         THEN IF Len(text) > 1 /\ text[2] \in WhiteSpace
              THEN CollapseSpace(Tail(text))
              ELSE <<" ">> \o CollapseSpace(Tail(text))
         ELSE <<Head(text)>> \o CollapseSpace(Tail(text))

\* strings.TrimSpace
RECURSIVE TrimLeft(_)
TrimLeft(text) ==
    IF text # <<>> /\ Head(text) \in WhiteSpace THEN TrimLeft(Tail(text)) ELSE text

RECURSIVE TrimRight(_)
TrimRight(text) ==
    IF text # <<>> /\ text[Len(text)] \in WhiteSpace
    THEN TrimRight(SubSeq(text, 1, Len(text) - 1))
    ELSE text

TrimSpace(text) == TrimRight(TrimLeft(text))

\* the replacements of extractTextFromHTML, one after the other
TextOf(html) == TrimSpace(CollapseSpace(UnescapeString(StripTags(RemoveScriptStyle(html)))))

ExtractTextFromHTML(html) ==
    IF ~ScriptStylePatternCompiles
    THEN [panic |-> TRUE, text |-> <<>>]
    ELSE [panic |-> FALSE, text |-> TextOf(html)]

\* the first manifest item with the spine item's id, 0 when there is none
ManifestIndex(manifest, idref) ==
    IF \E i \in 1..Len(manifest) : manifest[i].id = idref
    THEN CHOOSE i \in 1..Len(manifest) :
            /\ manifest[i].id = idref
            /\ \A j \in 1..(i - 1) : manifest[j].id # idref
    ELSE 0

\* the loop of parseEPUB over the spine, from item i on, pages being those found
RECURSIVE SpinePages(_, _, _)
SpinePages(file, i, pages) ==
    IF i > Len(file.spine) THEN [panic |-> FALSE, pages |-> pages]
    ELSE LET m == ManifestIndex(file.manifest, file.spine[i])
         IN  IF m # 0 /\ file.manifest[m].mediaType \in HtmlMediaTypes
             THEN IF ~file.manifest[m].inZip
                  THEN SpinePages(file, i + 1, pages)
                  ELSE LET t == ExtractTextFromHTML(file.manifest[m].html)
                       IN  IF t.panic THEN [panic |-> TRUE, pages |-> <<>>]
                           ELSE IF TrimSpace(t.text) # <<>>
                                THEN SpinePages(file, i + 1, Append(pages, TextPage(t.text)))
                                ELSE SpinePages(file, i + 1, pages)
             ELSE SpinePages(file, i + 1, pages)

\* findOPFPath, parseOPF and the spine loop: "nil", "panic" or the error
ParseEPUB(file) ==
    IF file.container = "missing" THEN [err |-> "container.xml not found", pages |-> <<>>]
    ELSE IF file.container = "nofullpath"
         THEN [err |-> "OPF path not found in container.xml", pages |-> <<>>]
    ELSE IF file.opf = "missing" THEN [err |-> "file not found", pages |-> <<>>]
    ELSE IF file.opf = "malformed" THEN [err |-> "failed to parse OPF", pages |-> <<>>]
    ELSE LET r == SpinePages(file, 1, <<>>)
         IN  IF r.panic THEN [err |-> "panic", pages |-> <<>>]
             ELSE IF Len(r.pages) = 0
                  THEN [err |-> "no readable content found in EPUB", pages |-> <<>>]
                  ELSE [err |-> "nil", pages |-> r.pages]

\* On a parse error the archive is closed again before the error is returned.
NewEPUBDocument(file) ==
    IF ~file.zipOpens THEN Err("failed to open EPUB file")
    ELSE LET r == ParseEPUB(file)
         IN  IF r.err = "panic" THEN Panic
             ELSE IF r.err # "nil" THEN Err("failed to parse EPUB")
             ELSE Ok([type |-> TypeEPUB, currentPage |-> 1, pageCount |-> 0,
                      pages |-> r.pages, handle |-> TRUE, bad |-> {}])

----------------------------------------------------------------------------
(* MOBI.  The bytes of a file are run-length encoded: a run <<c, n>> is n   *)
(* characters of class c, "x" a printable character that is no space, " "   *)
(* a space, "t" a tab, "r" a carriage return, "n" a newline and "b" a byte  *)
(* outside [\x20-\x7E\n\r\t].  A word is known by its length.               *)

RECURSIVE RunLen(_)
RunLen(runs) == IF runs = <<>> THEN 0 ELSE Head(runs)[2] + RunLen(Tail(runs))

\* `[^\x20-\x7E\n\r\t]` replaced by a space
ReplaceNonPrintable(runs) ==
    [i \in 1..Len(runs) |-> IF runs[i][1] = "b" THEN <<" ", runs[i][2]>> ELSE runs[i]]

\* strings.Split(text, "\n"): line being the runs of the line in progress
RECURSIVE SplitLines(_, _)
SplitLines(runs, line) ==
    IF runs = <<>> THEN <<line>>
    ELSE LET r == Head(runs)
         IN  IF r[1] = "n"
             THEN <<line>> \o SplitLines(IF r[2] > 1 THEN <<<<"n", r[2] - 1>>>> \o Tail(runs)
                                         ELSE Tail(runs), <<>>)
             ELSE SplitLines(Tail(runs), Append(line, r))

IsSpaceRun(r) == r[1] \in {" ", "t", "r", "n"}

RECURSIVE TrimRunsLeft(_)
TrimRunsLeft(runs) ==
    IF runs # <<>> /\ IsSpaceRun(Head(runs)) THEN TrimRunsLeft(Tail(runs)) ELSE runs

RECURSIVE TrimRunsRight(_)
TrimRunsRight(runs) ==
    IF runs # <<>> /\ IsSpaceRun(runs[Len(runs)])
    THEN TrimRunsRight(SubSeq(runs, 1, Len(runs) - 1))
    ELSE runs

TrimRuns(runs) == TrimRunsRight(TrimRunsLeft(runs))

\* strings.Fields: the lengths of the maximal runs of non-space characters,
\* cur being the length of the word in progress
RECURSIVE Fields(_, _)
Fields(runs, cur) ==
    IF runs = <<>> THEN (IF cur > 0 THEN <<cur>> ELSE <<>>)
    ELSE IF IsSpaceRun(Head(runs))
         THEN (IF cur > 0 THEN <<cur>> ELSE <<>>) \o Fields(Tail(runs), 0)
         ELSE Fields(Tail(runs), cur + Head(runs)[2])

\* a line is kept when, trimmed, it is longer than 10 and holds a space
MinLineLen == 10

IsReadableLine(line) ==
    LET t == TrimRuns(line)
    IN  RunLen(t) > MinLineLen /\ \E i \in 1..Len(t) : t[i][1] = " "

\* extractReadableText, as the words of the lines it keeps: the text it returns
\* is empty exactly when it keeps no line
RECURSIVE ReadableWords(_)
ReadableWords(lines) ==
    IF lines = <<>> THEN <<>>
    ELSE (IF IsReadableLine(Head(lines)) THEN Fields(TrimRuns(Head(lines)), 0) ELSE <<>>)
         \o ReadableWords(Tail(lines))

ExtractReadableText(content) == ReadableWords(SplitLines(ReplaceNonPrintable(content), <<>>))

Placeholder ==
    << <<"x", 4>>, <<" ", 1>>, <<"x", 7>>, <<" ", 1>>, <<"x", 10>>, <<" ", 1>>, <<"x", 3>>,
       <<" ", 1>>, <<"x", 5>>, <<" ", 1>>, <<"x", 12>>, <<"n", 2>>, <<"x", 4>>, <<" ", 1>>,
       <<"x", 2>>, <<" ", 1>>, <<"x", 1>>, <<" ", 1>>, <<"x", 11>>, <<" ", 1>>, <<"x", 3>>,
       <<" ", 1>>, <<"x", 4>>, <<" ", 1>>, <<"x", 4>>, <<" ", 1>>, <<"x", 8>>, <<" ", 1>>,
       <<"x", 1>>, <<" ", 1>>, <<"x", 8>>, <<" ", 1>>, <<"x", 4>>, <<" ", 1>>, <<"x", 6>>,
       <<" ", 1>>, <<"x", 5>>, <<" ", 1>>, <<"x", 2>>, <<" ", 1>>, <<"x", 6>>, <<" ", 1>>,
       <<"x", 2>>, <<" ", 1>>, <<"x", 8>>, <<" ", 1>>, <<"x", 7>>, <<" ", 1>>, <<"x", 3>>,
       <<" ", 1>>, <<"x", 7>>, <<" ", 1>>, <<"x", 3>>, <<" ", 1>>, <<"x", 4>>, <<" ", 1>>,
       <<"x", 8>> >>

PageSize == 2000

RECURSIVE SumSeq(_)
SumSeq(ws) == IF ws = <<>> THEN 0 ELSE Head(ws) + SumSeq(Tail(ws))

\* len of the page's string: its words and the spaces between them
PageLen(ws) == IF ws = <<>> THEN 0 ELSE SumSeq(ws) + Len(ws) - 1

\* the loop of splitIntoPages testing the length before the word is added
RECURSIVE SplitLoopLate(_, _, _)
SplitLoopLate(words, cur, pages) ==
    IF words = <<>>
    THEN IF cur # <<>> THEN Append(pages, WordPage(cur)) ELSE pages
    ELSE IF PageLen(cur) + 1 > PageSize /\ cur # <<>>
         THEN SplitLoopLate(Tail(words), <<Head(words)>>, Append(pages, WordPage(cur)))
         ELSE SplitLoopLate(Tail(words), Append(cur, Head(words)), pages)

\* the loop of splitIntoPages: cur is currentPage, pages those appended so far
RECURSIVE SplitLoop(_, _, _)
SplitLoop(words, cur, pages) ==
    IF words = <<>>
    THEN IF cur # <<>> THEN Append(pages, WordPage(cur)) ELSE pages
    ELSE IF PageLen(cur) + Head(words) + 1 > PageSize /\ cur # <<>>
         THEN SplitLoop(Tail(words), <<Head(words)>>, Append(pages, WordPage(cur)))
         ELSE SplitLoop(Tail(words), Append(cur, Head(words)), pages)

\* the string of a page, as runs: its words with one space between them
RECURSIVE JoinWords(_)
JoinWords(ws) ==
    IF ws = <<>> THEN <<>>
    ELSE IF Len(ws) = 1 THEN << <<"x", ws[1]>> >>
    ELSE << <<"x", Head(ws)>>, <<" ", 1>> >> \o JoinWords(Tail(ws))

SplitIntoPages(words) == SplitLoop(words, <<>>, <<>>)

\* extractBasicContent without the placeholder for a text that is empty
ExtractBasicContentNoPlaceholder(file) ==
    IF ~file.exists THEN [err |-> "open", pages |-> <<>>]
    ELSE LET pages == SplitIntoPages(ExtractReadableText(file.raw))
         IN  IF Len(pages) = 0
             THEN [err |-> "no readable content found in MOBI", pages |-> <<>>]
             ELSE [err |-> "nil", pages |-> pages]

\* extractBasicContent: the pages, or the error
ExtractBasicContent(file) ==
    IF ~file.exists THEN [err |-> "open", pages |-> <<>>]
    ELSE LET words == ExtractReadableText(file.raw)
             clean == IF words = <<>> THEN Fields(Placeholder, 0) ELSE words
             pages == SplitIntoPages(clean)
         IN  IF Len(pages) = 0
             THEN [err |-> "no readable content found in MOBI", pages |-> <<>>]
             ELSE [err |-> "nil", pages |-> pages]

\* The file is closed again before extractBasicContent returns: a MOBI
\* Document holds no handle.
NewMOBIDocument(file) ==
    LET r == ExtractBasicContent(file)
    IN  IF r.err # "nil" THEN Err("failed to extract MOBI content")
        ELSE Ok([type |-> TypeMOBI, currentPage |-> 1, pageCount |-> 0,
                 pages |-> r.pages, handle |-> FALSE, bad |-> {}])

----------------------------------------------------------------------------
(* The Document interface *)

GetPageCount(doc) == IF doc.type = TypePDF THEN doc.pageCount ELSE Len(doc.pages)

GetCurrentPage(doc) == doc.currentPage

GetType(doc) == doc.type

\* SetCurrentPage assigning the page before it checks the range
SetCurrentPageAssignFirst(doc, page) ==
    IF page < 1 \/ page > GetPageCount(doc)
    THEN [err |-> "out of range", doc |-> [doc EXCEPT !.currentPage = page]]
    ELSE [err |-> "nil", doc |-> [doc EXCEPT !.currentPage = page]]

SetCurrentPage(doc, page) ==
    IF page < 1 \/ page > GetPageCount(doc)
    THEN [err |-> "out of range", doc |-> doc]
    ELSE [err |-> "nil", doc |-> [doc EXCEPT !.currentPage = page]]

\* the rendered image of a PDF page
ImagePage(page) == [text |-> <<>>, words |-> <<page>>]
NoContent == [text |-> <<>>, words |-> <<>>]

\* GetPageContent with the upper bound tested by >=, the last page refused
GetPageContentOffByOne(doc, page) ==
    IF page < 1 \/ page >= GetPageCount(doc)
    THEN [err |-> "out of range", content |-> NoContent]
    ELSE IF doc.type = TypePDF
         THEN IF page \in doc.bad
              THEN [err |-> "failed to render page", content |-> NoContent]
              ELSE [err |-> "nil", content |-> ImagePage(page)]
         ELSE [err |-> "nil", content |-> doc.pages[page]]

\* PDF: the engine renders page - 1, and calling it through a released (nil)
\* engine pointer is a nil dereference.  EPUB, MOBI: the stored page.
GetPageContent(doc, page) ==
    IF page < 1 \/ page > GetPageCount(doc)
    THEN [err |-> "out of range", content |-> NoContent]
    ELSE IF doc.type = TypePDF
         THEN IF ~doc.handle THEN [err |-> "panic", content |-> NoContent]
              ELSE IF page \in doc.bad
                   THEN [err |-> "failed to render page", content |-> NoContent]
                   ELSE [err |-> "nil", content |-> ImagePage(page)]
         ELSE [err |-> "nil", content |-> doc.pages[page]]

\* Close: the engine or archive handle is released once, the pages dropped
CloseDocument(doc) ==
    IF doc.type = TypePDF THEN [doc EXCEPT !.handle = FALSE]
    ELSE [doc EXCEPT !.handle = FALSE, !.pages = <<>>]

----------------------------------------------------------------------------
(* The files of the model *)

NoFile == [fitzOpens |-> FALSE, numPage |-> 0, unrenderable |-> {},
           zipOpens |-> FALSE, container |-> "missing", opf |-> "missing",
           manifest |-> <<>>, spine |-> <<>>,
           exists |-> FALSE, raw |-> <<>>]

PdfFile(n, bad) == [NoFile EXCEPT !.exists = TRUE, !.fitzOpens = TRUE, !.numPage = n,
                                  !.unrenderable = bad]

EpubFile(container, opf, manifest, spine) ==
    [NoFile EXCEPT !.exists = TRUE, !.zipOpens = TRUE, !.container = container, !.opf = opf,
                   !.manifest = manifest, !.spine = spine]

MobiFile(raw) == [NoFile EXCEPT !.exists = TRUE, !.raw = raw]

PathA == <<"a", ".", "p", "d", "f">>
PathB == <<"b", ".", "P", "D", "F">>
PathC == <<"c", ".", "p", "d", "f">>
PathZ == <<"z", ".", "P", "d", "f">>
PathE == <<"e", ".", "e", "p", "u", "b">>
PathG == <<"g", ".", "E", "P", "U", "B">>
PathH == <<"h", ".", "e", "p", "u", "b">>
PathM == <<"m", ".", "m", "o", "b", "i">>
PathN == <<"n", ".", "M", "o", "b", "i">>
PathO == <<"o", ".", "m", "o", "b", "i">>
PathT == <<"t", ".", "t", "x", "t">>
PathF == <<"f">>
PathD == <<"d", ".", "p", "d", "f", "/", "x">>
PathU == <<"u", ".", "t", "x", "t">>
PathRM == <<"r", ".", "m", "o", "b", "i">>
PathRE == <<"r", ".", "e", "p", "u", "b">>

Paths == {PathA, PathB, PathC, PathZ, PathE, PathG, PathH, PathM, PathN, PathO,
          PathT, PathF, PathD, PathU}

Chapter == <<"<p>", "H", "i", "&amp;", "</p>">>

Disk(path) ==
    CASE path = PathA -> PdfFile(3, {2})    \* three pages, the second cannot be rendered
      [] path = PathB -> PdfFile(2, {})
      [] path = PathC -> [NoFile EXCEPT !.exists = TRUE]    \* not a PDF: the engine refuses it
      [] path = PathZ -> PdfFile(0, {})     \* the engine opens it and reports no page
      [] path = PathE -> EpubFile("ok", "ok",
                            <<[id |-> "c1", mediaType |-> "application/xhtml+xml",
                               inZip |-> TRUE, html |-> Chapter]>>, <<"c1">>)
      [] path = PathG -> EpubFile("missing", "ok", <<>>, <<>>)
      [] path = PathH -> EpubFile("ok", "ok",
                            <<[id |-> "img", mediaType |-> "image/png",
                               inZip |-> TRUE, html |-> <<>>],
                              [id |-> "c1", mediaType |-> "text/html",
                               inZip |-> FALSE, html |-> Chapter]>>, <<"img", "c1", "c2">>)
      [] path = PathM -> MobiFile(<< <<"b", 40>>, <<"n", 1>>, <<"x", 1200>>, <<" ", 1>>,
                                     <<"x", 900>>, <<"b", 3>>, <<"x", 2500>>, <<"n", 2>>,
                                     <<"x", 5>>, <<" ", 6>>, <<"x", 5>>, <<"r", 1>> >>)
      [] path = PathN -> MobiFile(<< <<"b", 64>>, <<"n", 1>>, <<"x", 8>>, <<"n", 1>>,
                                     <<"x", 30>> >>)
      [] path = PathO -> NoFile              \* no such file
      [] path = PathU -> NoFile              \* a file that cannot be opened
      [] path \in {PathRM, PathRE} -> probe
      [] OTHER -> MobiFile(<< <<"x", 5>>, <<" ", 1>>, <<"x", 9>> >>)

----------------------------------------------------------------------------
(* DocumentManager.  dm is [document, filename, leaked]: the manager's two  *)
(* fields and the number of handles held open by Documents it has dropped.  *)

NewDocumentManager == [document |-> NilDoc, filename |-> <<>>, leaked |-> 0]

GetDocument(dm) == dm.document

GetFilename(dm) == dm.filename

IsLoaded(dm) == dm.document # NilDoc

HandleCount(doc) == IF doc.handle THEN 1 ELSE 0

\* the result r of the format reader that was invoked, Nil when none was
By(reader, r) == [kind |-> r.kind, doc |-> r.doc, err |-> r.err, reader |-> reader]

\* Construct with every other extension handed to the MOBI reader
ConstructMobiByDefault(path) ==
    LET ext == ToLower(Ext(path))
    IN  CASE ext = ExtPdf -> By(TypePDF, NewPDFDocument(Disk(path)))
          [] ext = ExtEpub -> By(TypeEPUB, NewEPUBDocument(Disk(path)))
          [] OTHER -> By(TypeMOBI, NewMOBIDocument(Disk(path)))

\* Construct comparing the extension as it is written
ConstructCaseSensitive(path) ==
    LET ext == Ext(path)
    IN  CASE ext = ExtPdf -> By(TypePDF, NewPDFDocument(Disk(path)))
          [] ext = ExtEpub -> By(TypeEPUB, NewEPUBDocument(Disk(path)))
          [] ext = ExtMobi -> By(TypeMOBI, NewMOBIDocument(Disk(path)))
          [] OTHER -> By(Nil, Err("unsupported file format"))

\* the constructor the extension selects
Construct(path) ==
    LET ext == ToLower(Ext(path))
    IN  CASE ext = ExtPdf -> By(TypePDF, NewPDFDocument(Disk(path)))
          [] ext = ExtEpub -> By(TypeEPUB, NewEPUBDocument(Disk(path)))
          [] ext = ExtMobi -> By(TypeMOBI, NewMOBIDocument(Disk(path)))
          [] OTHER -> By(Nil, Err("unsupported file format"))

\* Construct over the files of the model that do not change, evaluated once
Constructed == [path \in Paths |-> Construct(path)]

\* Document.Close releasing the handle whether or not it is still held
DocumentCloseUnguarded(doc) ==
    [doc |-> CloseDocument(doc), err |-> "nil",
     released |-> IF doc.type \in {TypePDF, TypeEPUB} THEN 1 ELSE 0]

\* Close of a Document by its holder: the state it leaves, the error it
\* returns and the number of handles it releases
DocumentClose(doc) ==
    [doc |-> CloseDocument(doc), err |-> "nil", released |-> HandleCount(doc)]

\* LoadDocument releasing the old Document before the new one is constructed
LoadDocumentReleaseFirst(dm, path) ==
    LET r == Constructed[path]
        d0 == [document |-> NilDoc, filename |-> <<>>,
               leaked |-> dm.leaked + HandleCount(CloseDocument(dm.document))]
    IN  IF r.kind # "ok" THEN [dm |-> d0, err |-> r.err, reader |-> r.reader]
        ELSE [dm |-> [d0 EXCEPT !.document = r.doc, !.filename = path], err |-> "nil",
              reader |-> r.reader]

\* LoadDocument: the new Document is assigned over the old one, which is not
\* closed: what it holds open stays open.  reader is the format reader the
\* call invoked; each of them opens the file once, as its first step.
LoadDocument(dm, path) ==
    LET Assign(r) ==
            IF r.kind # "ok" THEN [dm |-> dm, err |-> r.err, reader |-> r.reader]
            ELSE [dm |-> [document |-> r.doc, filename |-> path,
                          leaked |-> dm.leaked + HandleCount(dm.document)],
                  err |-> "nil", reader |-> r.reader]
    IN  Assign(IF path \in Paths THEN Constructed[path] ELSE Construct(path))

\* Close leaving the filename behind
CloseKeepsFilename(dm) ==
    IF dm.document # NilDoc
    THEN [dm |-> [dm EXCEPT !.document = NilDoc], err |-> "nil"]
    ELSE [dm |-> dm, err |-> "nil"]

\* Close closing the Document and keeping it in the manager
CloseKeepsDocument(dm) ==
    IF dm.document # NilDoc
    THEN [dm |-> [dm EXCEPT !.document = CloseDocument(dm.document)], err |-> "nil"]
    ELSE [dm |-> dm, err |-> "nil"]

Close(dm) ==
    IF dm.document # NilDoc
    THEN [dm |-> [document |-> NilDoc, filename |-> <<>>,
                  leaked |-> dm.leaked + HandleCount(CloseDocument(dm.document))],
          err |-> "nil"]
    ELSE [dm |-> dm, err |-> "nil"]

----------------------------------------------------------------------------
(* ModernApplication.  app is the application's state as a record; modal is *)
(* the title of the error dialog the running handler has shown, "none" if   *)
(* it has shown none, reader the format reader it has invoked and opens the *)
(* number of times it has had a file opened.                                *)

NewModernApplication ==
    [dm |-> NewDocumentManager, currentPage |-> 1, zoomLevel |-> One, fitMode |-> "page",
     scrollZoomMode |-> FALSE, pdfImage |-> FALSE, navEnabled |-> FALSE,
     modal |-> "none", reader |-> Nil, opens |-> 0, panicked |-> FALSE]

showError(app, title) == [app EXCEPT !.modal = title]

displayCurrentPage(app) ==
    LET doc == GetDocument(app.dm)
    IN  IF doc = NilDoc THEN app
        ELSE LET r == GetPageContent(doc, app.currentPage)
             IN  IF r.err = "panic" THEN [app EXCEPT !.panicked = TRUE]
                 ELSE IF r.err # "nil" THEN showError(app, "Display Error")
                 ELSE IF GetType(doc) = TypePDF THEN [app EXCEPT !.pdfImage = TRUE]
                 ELSE app

\* the part of updateUI that is state: the controls are enabled with a document
updateUI(app) == [app EXCEPT !.navEnabled = (GetDocument(app.dm) # NilDoc)]

\* loadDocument without the reset of the UI's page to the first one
loadDocumentKeepsPage(app, name) ==
    LET Called(r) == [app EXCEPT !.reader = r.reader,
                                 !.opens = @ + (IF r.reader # Nil THEN 1 ELSE 0)]
        Loaded(r) ==
            IF r.err = "panic" THEN [Called(r) EXCEPT !.panicked = TRUE]
            ELSE IF r.err # "nil" THEN showError(Called(r), "Load Error")
            ELSE updateUI(displayCurrentPage([Called(r) EXCEPT !.dm = r.dm]))
    IN  Loaded(LoadDocument(app.dm, name))

loadDocument(app, name) ==
    LET Called(r) == [app EXCEPT !.reader = r.reader,
                                 !.opens = @ + (IF r.reader # Nil THEN 1 ELSE 0)]
        Loaded(r) ==
            IF r.err = "panic" THEN [Called(r) EXCEPT !.panicked = TRUE]
            ELSE IF r.err # "nil" THEN showError(Called(r), "Load Error")
            ELSE updateUI(displayCurrentPage(
                     [Called(r) EXCEPT !.dm = [r.dm EXCEPT !.document =
                                                   SetCurrentPage(GetDocument(r.dm), 1).doc],
                                       !.currentPage = 1]))
    IN  Loaded(LoadDocument(app.dm, name))

\* the callback of the file-open dialog, for the file the user picked: the
\* dialog hands it a reader of the file, opened, or the error of opening it;
\* the callback closes the reader and then looks at the name
openDocument(app, name) ==
    LET picked == [app EXCEPT !.opens = @ + 1]
    IN  IF ~Disk(name).exists THEN showError(picked, "File Error")
        ELSE IF ~IsSupportedFormat(name) THEN showError(picked, "Unsupported Format")
        ELSE loadDocument(picked, name)

\* handleFileDrop handing every file dropped to loadDocument
handleFileDropUnchecked(app, name) == loadDocument(app, name)

handleFileDrop(app, name) ==
    IF ~IsSupportedFormat(name) THEN showError(app, "Unsupported Format")
    ELSE loadDocument(app, name)

\* goToPage moving the UI's page without the Document's
goToPageViewOnly(app, page) ==
    LET doc == GetDocument(app.dm)
    IN  IF doc = NilDoc THEN app
        ELSE LET Moved(r) ==
                     IF r.err # "nil" THEN app
                     ELSE updateUI(displayCurrentPage([app EXCEPT !.currentPage = page]))
             IN  Moved(SetCurrentPage(doc, page))

\* goToPage showing the new page fitted to the window
goToPageFitting(app, page) ==
    LET doc == GetDocument(app.dm)
    IN  IF doc = NilDoc THEN app
        ELSE LET Moved(r) ==
                     IF r.err # "nil" THEN app
                     ELSE updateUI(displayCurrentPage(
                              [app EXCEPT !.dm.document = r.doc, !.currentPage = page,
                                          !.fitMode = "page", !.zoomLevel = One]))
             IN  Moved(SetCurrentPage(doc, page))

goToPage(app, page) ==
    LET doc == GetDocument(app.dm)
    IN  IF doc = NilDoc THEN app
        ELSE LET r == SetCurrentPage(doc, page)
             IN  IF r.err # "nil" THEN app
                 ELSE updateUI(displayCurrentPage(
                          [app EXCEPT !.dm.document = r.doc, !.currentPage = page]))

goToFirstPage(app) == goToPage(app, 1)

goToPreviousPage(app) ==
    IF app.currentPage > 1 THEN goToPage(app, app.currentPage - 1) ELSE app

goToNextPage(app) ==
    LET doc == GetDocument(app.dm)
    IN  IF doc # NilDoc /\ app.currentPage < GetPageCount(doc)
        THEN goToPage(app, app.currentPage + 1)
        ELSE app

\* goToLastPage asking a nil Document for its page count
goToLastPageUnguarded(app) ==
    LET doc == GetDocument(app.dm)
    IN  IF doc = NilDoc THEN [app EXCEPT !.panicked = TRUE]
        ELSE goToPage(app, GetPageCount(doc))

goToLastPage(app) ==
    LET doc == GetDocument(app.dm)
    IN  IF doc # NilDoc THEN goToPage(app, GetPageCount(doc)) ELSE app

\* page is what Sscanf reads from the entry, 0 when it reads no number
goToPageFromEntry(app, page) ==
    LET doc == GetDocument(app.dm)
    IN  IF doc = NilDoc THEN app
        ELSE IF page >= 1 /\ page <= GetPageCount(doc) THEN goToPage(app, page)
        ELSE app

refreshCurrentPage(app) == IF IsLoaded(app.dm) THEN displayCurrentPage(app) ELSE app

\* Clamp without the upper bound
ClampLowerOnly(level) == IF RLess(level, ZoomMin) THEN ZoomMin ELSE level

Clamp(level) ==
    IF RLess(level, ZoomMin) THEN ZoomMin
    ELSE IF RLess(ZoomMax, level) THEN ZoomMax
    ELSE level

setZoom(app, level) ==
    refreshCurrentPage([app EXCEPT !.zoomLevel = Clamp(level), !.fitMode = "custom"])

zoomIn(app) == setZoom(app, RMul(app.zoomLevel, ZoomStep))

\* zoomOut multiplying, as zoomIn does
zoomOutTimes(app) == setZoom(app, RMul(app.zoomLevel, ZoomStep))

zoomOut(app) == setZoom(app, RDiv(app.zoomLevel, ZoomStep))

\* fitToPage leaving the zoom level as it is
fitToPageKeepsZoom(app) == refreshCurrentPage([app EXCEPT !.fitMode = "page"])

fitToPage(app) == refreshCurrentPage([app EXCEPT !.fitMode = "page", !.zoomLevel = One])

\* fitToWidth leaving the zoom level as it is
fitToWidthKeepsZoom(app) == refreshCurrentPage([app EXCEPT !.fitMode = "width"])

fitToWidth(app) == refreshCurrentPage([app EXCEPT !.fitMode = "width", !.zoomLevel = One])

toggleScrollZoomMode(app) == [app EXCEPT !.scrollZoomMode = ~app.scrollZoomMode]

\* onZoomChange whose toggle goes from page to fit-width
onZoomChangeFitWidth(app, delta) ==
    IF delta = <<0, 1>>
    THEN IF app.fitMode = "page" THEN fitToWidth(app) ELSE fitToPage(app)
    ELSE IF app.scrollZoomMode THEN setZoom(app, RAdd(app.zoomLevel, delta))
    ELSE app

\* the viewer's zoom callback: delta 0 is the double-click toggle
onZoomChange(app, delta) ==
    IF delta = <<0, 1>>
    THEN IF app.fitMode = "page" THEN setZoom(app, One) ELSE fitToPage(app)
    ELSE IF app.scrollZoomMode THEN setZoom(app, RAdd(app.zoomLevel, delta))
    ELSE app

onPageChange(app, delta) == IF delta > 0 THEN goToNextPage(app) ELSE goToPreviousPage(app)

\* EnhancedImageViewer.Scrolled: dy is the sign of the wheel movement, larger
\* whether the image shown exceeds the viewport (then the wheel only scrolls)
Scrolled(app, dy, larger) ==
    IF app.pdfImage /\ larger THEN app
    ELSE IF app.scrollZoomMode
         THEN IF dy > 0 THEN onZoomChange(app, WheelStep)
              ELSE IF dy < 0 THEN onZoomChange(app, Rat(-1, 5))
              ELSE app
         ELSE IF dy > 0 THEN onPageChange(app, -1)
              ELSE IF dy < 0 THEN onPageChange(app, 1)
              ELSE app

DoubleTapped(app) == onZoomChange(app, <<0, 1>>)

----------------------------------------------------------------------------
(* The state machine *)

DM == [document |-> document, filename |-> filename, leaked |-> leaked]

App == [dm |-> DM, currentPage |-> currentPage, zoomLevel |-> zoomLevel, fitMode |-> fitMode,
        scrollZoomMode |-> scrollZoomMode, pdfImage |-> pdfImage, navEnabled |-> navEnabled,
        modal |-> "none", reader |-> Nil, opens |-> 0, panicked |-> panicked]

\* the record of a call: reader is the format reader it invoked and opens the
\* number of times it had a file opened, was tells whether a document was
\* loaded when it began,
\* old the page, zoom level and fit mode the view had then
Ret(op, path, page, level, err, modal) ==
    [op |-> op, path |-> path, page |-> page, level |-> level, err |-> err, modal |-> modal,
     reader |-> Nil, opens |-> 0, released |-> 0,
     was |-> (document # NilDoc),
     old |-> [currentPage |-> currentPage, zoomLevel |-> zoomLevel, fitMode |-> fitMode]]

InitApp ==
    /\ document = NewModernApplication.dm.document
    /\ filename = NewModernApplication.dm.filename
    /\ leaked = NewModernApplication.dm.leaked
    /\ panicked = FALSE
    /\ currentPage = NewModernApplication.currentPage
    /\ zoomLevel = NewModernApplication.zoomLevel
    /\ fitMode = NewModernApplication.fitMode
    /\ scrollZoomMode = NewModernApplication.scrollZoomMode
    /\ pdfImage = NewModernApplication.pdfImage
    /\ navEnabled = NewModernApplication.navEnabled
    /\ zoomOps = 0
    /\ ret = [op |-> "New", path |-> <<>>, page |-> 0, level |-> <<0, 1>>, err |-> "nil",
              modal |-> "none", reader |-> Nil, opens |-> 0, released |-> 0,
              was |-> FALSE,
              old |-> [currentPage |-> 1, zoomLevel |-> <<1, 1>>, fitMode |-> "page"]]

Init == InitApp /\ probe = NoFile

\* page arguments: every page of the document and PageMargin beyond each end
PageArgs(doc) == (1 - PageMargin - 1)..(GetPageCount(doc) + PageMargin)

(* Calls on the reader package: the manager and the Document it hands out.  *)
(* The result of a call is bound once, as r or a, and committed.           *)

SetDM(dm) ==
    /\ document' = dm.document
    /\ filename' = dm.filename
    /\ leaked' = dm.leaked

ApiLoadDocument(path) ==
    /\ ~panicked
    /\ \E r \in {LoadDocument(DM, path)} :
         /\ r.dm.leaked <= MaxLeaked
         /\ SetDM(r.dm)
         /\ panicked' = (r.err = "panic")
         /\ ret' = [Ret("LoadDocument", path, 0, <<0, 1>>, r.err, "none")
                        EXCEPT !.reader = r.reader,
                               !.opens = IF r.reader # Nil THEN 1 ELSE 0]
    /\ UNCHANGED <<viewVars, probe>>

ApiClose ==
    /\ ~panicked
    /\ \E r \in {Close(DM)} :
         /\ SetDM(r.dm)
         /\ ret' = Ret("Close", <<>>, 0, <<0, 1>>, r.err, "none")
    /\ UNCHANGED <<panicked, viewVars, probe>>

ApiSetCurrentPage(page) ==
    /\ ~panicked
    /\ IsLoaded(DM)
    /\ \E r \in {SetCurrentPage(GetDocument(DM), page)} :
         /\ document' = r.doc
         /\ ret' = Ret("SetCurrentPage", <<>>, page, <<0, 1>>, r.err, "none")
    /\ UNCHANGED <<filename, leaked, panicked, viewVars, probe>>

ApiGetPageContent(page) ==
    /\ ~panicked
    /\ IsLoaded(DM)
    /\ \E r \in {GetPageContent(GetDocument(DM), page)} :
         /\ panicked' = (r.err = "panic")
         /\ ret' = Ret("GetPageContent", <<>>, page, <<0, 1>>, r.err, "none")
    /\ UNCHANGED <<dmVars, viewVars, probe>>

Next ==
    \/ \E path \in Paths : ApiLoadDocument(path)
    \/ ApiClose
    \/ \E page \in PageArgs(document) : ApiSetCurrentPage(page)
    \/ \E page \in PageArgs(document) : ApiGetPageContent(page)

Spec == Init /\ [][Next]_vars

(* Events of the user interface: a handler runs to its end *)

\* the state a handler leaves, zs being the zoom steps counted after it
Commit(a, zs, r) ==
    /\ a.dm.leaked <= MaxLeaked
    /\ SetDM(a.dm)
    /\ panicked' = a.panicked
    /\ currentPage' = a.currentPage
    /\ zoomLevel' = a.zoomLevel
    /\ fitMode' = a.fitMode
    /\ scrollZoomMode' = a.scrollZoomMode
    /\ pdfImage' = a.pdfImage
    /\ navEnabled' = a.navEnabled
    /\ zoomOps' = zs
    /\ ret' = r
    /\ UNCHANGED probe

UIRet(op, path, page, a) ==
    [Ret(op, path, page, <<0, 1>>, "nil", a.modal) EXCEPT !.reader = a.reader,
                                                          !.opens = a.opens]

\* a relative zoom step counts when it changes the level
Stepped(a) == IF a.zoomLevel # zoomLevel THEN zoomOps + 1 ELSE zoomOps

UIOpenDocument(path) ==
    /\ ~panicked
    /\ \E a \in {openDocument(App, path)} :
         Commit(a, zoomOps, UIRet("openDocument", path, 0, a))

UIHandleFileDrop(path) ==
    /\ ~panicked
    /\ \E a \in {handleFileDrop(App, path)} :
         Commit(a, zoomOps, UIRet("handleFileDrop", path, 0, a))

UIGoToFirstPage ==
    /\ ~panicked
    /\ \E a \in {goToFirstPage(App)} :
         Commit(a, zoomOps, UIRet("goToFirstPage", <<>>, 0, a))

UIGoToPreviousPage ==
    /\ ~panicked
    /\ \E a \in {goToPreviousPage(App)} :
         Commit(a, zoomOps, UIRet("goToPreviousPage", <<>>, 0, a))

UIGoToNextPage ==
    /\ ~panicked
    /\ \E a \in {goToNextPage(App)} :
         Commit(a, zoomOps, UIRet("goToNextPage", <<>>, 0, a))

UIGoToLastPage ==
    /\ ~panicked
    /\ \E a \in {goToLastPage(App)} :
         Commit(a, zoomOps, UIRet("goToLastPage", <<>>, 0, a))

\* the page entry is submitted; it is disabled while no document is loaded
UIGoToPageFromEntry(page) ==
    /\ ~panicked
    /\ navEnabled
    /\ \E a \in {goToPageFromEntry(App, page)} :
         Commit(a, zoomOps, UIRet("goToPageFromEntry", <<>>, page, a))

UIZoomIn ==
    /\ ~panicked
    /\ zoomOps < MaxZoomOps
    /\ \E a \in {zoomIn(App)} :
         Commit(a, Stepped(a), UIRet("zoomIn", <<>>, 0, a))

UIZoomOut ==
    /\ ~panicked
    /\ zoomOps < MaxZoomOps
    /\ \E a \in {zoomOut(App)} :
         Commit(a, Stepped(a), UIRet("zoomOut", <<>>, 0, a))

\* Ctrl+0
UIResetZoom ==
    /\ ~panicked
    /\ \E a \in {setZoom(App, One)} :
         Commit(a, 0, UIRet("resetZoom", <<>>, 0, a))

UIFitToPage ==
    /\ ~panicked
    /\ \E a \in {fitToPage(App)} :
         Commit(a, 0, UIRet("fitToPage", <<>>, 0, a))

UIFitToWidth ==
    /\ ~panicked
    /\ \E a \in {fitToWidth(App)} :
         Commit(a, 0, UIRet("fitToWidth", <<>>, 0, a))

UIToggleScrollZoomMode ==
    /\ ~panicked
    /\ \E a \in {toggleScrollZoomMode(App)} :
         Commit(a, zoomOps, UIRet("toggleScrollZoomMode", <<>>, 0, a))

UIScrolled(dy, larger) ==
    /\ ~panicked
    /\ zoomOps < MaxZoomOps
    /\ \E a \in {Scrolled(App, dy, larger)} :
         Commit(a, Stepped(a), UIRet("Scrolled", <<>>, dy, a))

UIDoubleTapped ==
    /\ ~panicked
    /\ \E a \in {DoubleTapped(App)} :
         Commit(a, 0, UIRet("DoubleTapped", <<>>, 0, a))

\* the files the user picks or drops
UIPaths == {PathA, PathB, PathC, PathZ, PathE, PathH, PathM, PathT, PathD, PathU}

UINext ==
    \/ \E path \in UIPaths : UIOpenDocument(path)
    \/ \E path \in UIPaths : UIHandleFileDrop(path)
    \/ UIGoToFirstPage
    \/ UIGoToPreviousPage
    \/ UIGoToNextPage
    \/ UIGoToLastPage
    \/ \E page \in PageArgs(document) : UIGoToPageFromEntry(page)
    \/ UIZoomIn
    \/ UIZoomOut
    \/ UIResetZoom
    \/ UIFitToPage
    \/ UIFitToWidth
    \/ UIToggleScrollZoomMode
    \/ \E dy \in {-1, 0, 1}, larger \in BOOLEAN : UIScrolled(dy, larger)
    \/ UIDoubleTapped

UISpec == Init /\ [][UINext]_vars

(* The zoom methods called directly, setZoom with any level *)

ZoomLevels == {Rat(-1, 1), Rat(0, 1), Rat(1, 100), Rat(1, 10), Rat(11, 100), Rat(9, 2),
               Rat(5, 1), Rat(10, 1)}

ZoomPaths == {PathA, PathM, PathT}

CallSetZoom(level) ==
    /\ ~panicked
    /\ \E a \in {setZoom(App, level)} :
         Commit(a, 0, Ret("setZoom", <<>>, 0, level, "nil", a.modal))

ZoomNext ==
    \/ \E level \in ZoomLevels : CallSetZoom(level)
    \/ \E path \in ZoomPaths : UIOpenDocument(path)
    \/ UIZoomIn
    \/ UIZoomOut
    \/ UIResetZoom
    \/ UIFitToPage
    \/ UIFitToWidth
    \/ UIToggleScrollZoomMode
    \/ \E dy \in {-1, 0, 1}, larger \in BOOLEAN : UIScrolled(dy, larger)
    \/ UIDoubleTapped

ZoomSpec == Init /\ [][ZoomNext]_vars

----------------------------------------------------------------------------
(* The MOBI reader on any content: the file r.mobi holds at most MaxRuns    *)
(* runs, or cannot be opened.                                               *)

MaxRuns == 3

\* a letter, a word of 11 letters, a word of 1995, a space, a newline, a byte
\* that is not printable
RunAlphabet == {<<"x", 1>>, <<"x", 11>>, <<"x", 1995>>, <<" ", 1>>, <<"n", 1>>, <<"b", 1>>}

RawContents == UNION {[1..n -> RunAlphabet] : n \in 0..MaxRuns}

MobiInit == InitApp /\ probe \in ({MobiFile(raw) : raw \in RawContents} \cup {NoFile})

MobiNext ==
    \/ ApiLoadDocument(PathRM)
    \/ ApiClose
    \/ \E page \in PageArgs(document) : ApiSetCurrentPage(page)
    \/ \E page \in PageArgs(document) : ApiGetPageContent(page)

MobiSpec == MobiInit /\ [][MobiNext]_vars

----------------------------------------------------------------------------
(* The EPUB reader on any archive: the file r.epub is an archive with or    *)
(* without container.xml and OPF, a manifest of at most two items and a     *)
(* spine of at most MaxSpine items, or is no ZIP archive.                   *)

MaxSpine == 2

\* a chapter with text, one with tags and white space only, an empty one
Htmls == {Chapter, <<"<p>", " ", "\n", "</p>">>, <<>>}

FirstItems ==
    {[id |-> "c1", mediaType |-> mt, inZip |-> z, html |-> h] :
        mt \in {"application/xhtml+xml", "image/png"}, z \in BOOLEAN, h \in Htmls}

SecondItems ==
    {[id |-> "c2", mediaType |-> "text/html", inZip |-> TRUE, html |-> Chapter],
     [id |-> "c2", mediaType |-> "image/png", inZip |-> TRUE, html |-> <<>>]}

Manifests ==
    {<<>>} \cup {<<i1>> : i1 \in FirstItems}
           \cup {<<i1, i2>> : i1 \in FirstItems, i2 \in SecondItems}

Spines == UNION {[1..n -> {"c1", "c2", "c3"}] : n \in 0..MaxSpine}

EpubFiles ==
    {EpubFile(c, o, m, sp) : c \in {"ok", "missing", "nofullpath"},
                             o \in {"ok", "missing", "malformed"},
                             m \in Manifests, sp \in Spines}

EpubInit == InitApp /\ probe \in (EpubFiles \cup {NoFile})

\* r.epub is loaded into a manager that is empty or holds the PDF b.PDF
EpubNext ==
    \/ \E path \in {PathRE, PathB} : ApiLoadDocument(path)
    \/ ApiClose

EpubSpec == EpubInit /\ [][EpubNext]_vars

----------------------------------------------------------------------------
(* The reader API with a holder of the Document.  GetDocument hands out the *)
(* manager's Document itself, so its holder may call Close on it, any       *)
(* number of times, while the manager still owns it.                        *)

ApiDocumentClose ==
    /\ ~panicked
    /\ IsLoaded(DM)
    /\ \E r \in {DocumentClose(GetDocument(DM))} :
         /\ document' = r.doc
         /\ ret' = [Ret("Document.Close", <<>>, 0, <<0, 1>>, r.err, "none")
                        EXCEPT !.released = r.released]
    /\ UNCHANGED <<filename, leaked, panicked, viewVars, probe>>

CloseNext ==
    \/ \E path \in Paths : ApiLoadDocument(path)
    \/ ApiClose
    \/ ApiDocumentClose
    \/ \E page \in PageArgs(document) : ApiSetCurrentPage(page)
    \/ \E page \in PageArgs(document) : ApiGetPageContent(page)

CloseSpec == Init /\ [][CloseNext]_vars

----------------------------------------------------------------------------
(* Properties *)

\* the extensions the specification names, compared without regard to case
NamedExtension(path) == ToLower(Ext(path)) \in {ExtPdf, ExtEpub, ExtMobi}

PageInRange(doc, page) == 1 <= page /\ page <= GetPageCount(doc)

\* C1: a LoadDocument that fails (an error, or a panic in the constructor)
\* leaves the manager with the Document and filename it had, the Document
\* as it was (not closed, same page count, current page and pages); the
\* Document changes only in a LoadDocument whose constructor succeeded.
C1_FailedLoadKeepsDocument ==
    [][ /\ (ret'.op = "LoadDocument" /\ ret'.err # "nil")
            => (document' = document /\ filename' = filename /\ leaked' = leaked)
        /\ (ret'.op = "LoadDocument" /\ document' # document)
            => (ret'.err = "nil" /\ Construct(ret'.path).kind = "ok") ]_vars

\* a reload has failed on a manager that still owns an open PDF on page 2
C1_Witness ==
    /\ ret.op = "LoadDocument" /\ ret.was /\ ret.err = "failed to open PDF file"
    /\ document.type = TypePDF /\ document.handle /\ document.currentPage = 2

\* C2: no Document that the manager has dropped holds its engine or archive
\* handle open: the only open handle is that of the Document it owns.
C2_OnlyOwnedHandleOpen == leaked = 0 /\ (document = NilDoc => ~document.handle)

\* C3: LoadDocument of a path whose extension is none of .pdf, .epub, .mobi
\* returns the unsupported-format error and changes nothing in the manager.
C3_UnsupportedLeavesManager ==
    [][ (ret'.op = "LoadDocument" /\ ~NamedExtension(ret'.path))
            => /\ ret'.err = "unsupported file format"
               /\ document' = document /\ filename' = filename /\ leaked' = leaked
               /\ ~panicked' ]_vars

\* an unsupported path was refused while a document was loaded
C3_Witness ==
    /\ ret.op = "LoadDocument" /\ ret.path = PathD /\ ret.err = "unsupported file format"
    /\ ret.was /\ document # NilDoc /\ filename # <<>>

\* C4: Close leaves the manager empty and returns nil; the Document it owned
\* is closed (it keeps no handle open), and on an empty manager nothing changes.
C4_CloseEmpties ==
    [][ ret'.op = "Close"
            => /\ document' = NilDoc /\ filename' = <<>> /\ ret'.err = "nil"
               /\ leaked' = leaked
               /\ (document = NilDoc => filename' = filename) ]_vars

\* Close has run on a manager that owned a Document
C4_Witness == ret.op = "Close" /\ ret.was /\ document = NilDoc /\ filename = <<>>

NavOps == {"goToFirstPage", "goToPreviousPage", "goToNextPage", "goToLastPage",
           "goToPageFromEntry", "Scrolled"}

C6_ContentIffInRange ==
    ret.op = "GetPageContent"
        => IF PageInRange(document, ret.page) THEN ret.err = "nil"
           ELSE ret.err = "out of range"

\* C6: GetPageContent(n) fails as out of range for every n outside
\* 1..pageCount; for n inside it succeeds on an EPUB or MOBI Document, and
\* on a PDF it succeeds or reports that the engine failed to render the page.
C6_ContentInRange ==
    ret.op = "GetPageContent"
        => IF PageInRange(document, ret.page)
           THEN \/ ret.err = "nil"
                \/ document.type = TypePDF /\ ret.err = "failed to render page"
           ELSE ret.err = "out of range"

\* the last page of a document of several pages was read
C6_Witness ==
    /\ ret.op = "GetPageContent" /\ ret.err = "nil"
    /\ ret.page = GetPageCount(document) /\ ret.page > 1

\* C7: the Document the manager owns has 1 <= currentPage <= pageCount
C7_CurrentPageInRange ==
    document # NilDoc => PageInRange(document, GetCurrentPage(document))

\* C8: the Document a successful load leaves has at least one page
C8_PageCountAtLeastOne == document # NilDoc => GetPageCount(document) >= 1

\* C9: the zoom level stays within [0.1, 5.0]; setZoom(level) stores the
\* level brought into that interval (5.0 for 10.0, 0.1 for 0.01) and sets
\* the fit mode to custom.
C9_ZoomWithinBounds ==
    /\ RLeq(<<1, 10>>, zoomLevel) /\ RLeq(zoomLevel, <<5, 1>>)
    /\ ret.op = "setZoom"
        => /\ fitMode = "custom"
           /\ RLess(<<5, 1>>, ret.level) => zoomLevel = <<5, 1>>
           /\ RLess(ret.level, <<1, 10>>) => zoomLevel = <<1, 10>>
           /\ (RLeq(<<1, 10>>, ret.level) /\ RLeq(ret.level, <<5, 1>>))
                => zoomLevel = ret.level

\* setZoom(10.0) has left the level at 5.0
C9_Witness == ret.op = "setZoom" /\ ret.level = <<10, 1>> /\ zoomLevel = <<5, 1>>

\* the level x brought into [0.1, 5.0]
Bounded(x) == IF RLess(x, <<1, 10>>) THEN <<1, 10>> ELSE IF RLess(<<5, 1>>, x) THEN <<5, 1>> ELSE x

\* C10: zoomIn sets the level to 1.2 times the level, zoomOut to the level
\* divided by 1.2, each brought into [0.1, 5.0], and both set the fit mode to
\* custom; zoomIn raises a level below 5.0 and zoomOut lowers one above 0.1.
C10_ZoomInOut ==
    [][ /\ ret'.op = "zoomIn"
            => /\ zoomLevel' = Bounded(Rat(zoomLevel[1] * 12, zoomLevel[2] * 10))
               /\ fitMode' = "custom"
               /\ RLess(zoomLevel, <<5, 1>>) => RLess(zoomLevel, zoomLevel')
        /\ ret'.op = "zoomOut"
            => /\ zoomLevel' = Bounded(Rat(zoomLevel[1] * 10, zoomLevel[2] * 12))
               /\ fitMode' = "custom"
               /\ RLess(<<1, 10>>, zoomLevel) => RLess(zoomLevel', zoomLevel) ]_vars

\* zoomOut has run from a level near the lower bound and ended at 0.1
C10_Witness == ret.op = "zoomOut" /\ zoomLevel = <<1, 10>> /\ fitMode = "custom"

\* C11: fitToPage and fitToWidth set the zoom level to 1.0 and the fit mode to
\* page and to width, whatever the level and mode were; a zoomIn that follows
\* fitToPage leaves the mode custom.
C11_FitResetsZoom ==
    [][ /\ ret'.op = "fitToPage" => (zoomLevel' = One /\ fitMode' = "page")
        /\ ret'.op = "fitToWidth" => (zoomLevel' = One /\ fitMode' = "width")
        /\ (ret.op = "fitToPage" /\ ret'.op = "zoomIn") => fitMode' = "custom" ]_vars

\* fitToWidth has run in mode custom at level 1.2, where zoomIn had left it
C11_Witness ==
    /\ ret.op = "fitToWidth" /\ ret.old.fitMode = "custom" /\ ret.old.zoomLevel = <<6, 5>>
    /\ zoomLevel = <<1, 1>> /\ fitMode = "width"

ButtonNavOps == {"goToFirstPage", "goToPreviousPage", "goToNextPage", "goToLastPage"}

\* goToPreviousPage on page 1 and goToNextPage on the last page change neither
\* the page of the view nor the Document, and show no dialog
BoundaryNoOps ==
    /\ (ret'.op = "goToPreviousPage" /\ document # NilDoc /\ currentPage = 1)
            => (UNCHANGED <<currentPage, document>> /\ ret'.modal = "none")
    /\ (ret'.op = "goToNextPage" /\ document # NilDoc
            /\ currentPage = GetPageCount(document))
            => (UNCHANGED <<currentPage, document>> /\ ret'.modal = "none")

\* C12: with a document loaded, goToPreviousPage on page 1 and goToNextPage on
\* the last page are no-ops, and after first, previous, next or last the page
\* of the view is within 1..pageCount.
C12_NavigationStaysInRange ==
    [][ /\ BoundaryNoOps
        /\ (ret'.op \in ButtonNavOps /\ document # NilDoc)
                => PageInRange(document', currentPage') ]_vars

PageOps == ButtonNavOps \cup {"goToPageFromEntry"}
ZoomFitOps == {"zoomIn", "zoomOut", "setZoom", "resetZoom", "fitToPage", "fitToWidth"}

\* C13: first, previous, next, last and go-to-page leave the zoom level and
\* the fit mode as they were; zoomIn, zoomOut, setZoom, fitToPage and
\* fitToWidth leave the page of the view and the Document's current page.
C13_NavigationAndZoomIndependent ==
    [][ /\ ret'.op \in PageOps => UNCHANGED <<zoomLevel, fitMode>>
        /\ ret'.op \in ZoomFitOps
            => /\ currentPage' = currentPage
               /\ GetCurrentPage(document') = GetCurrentPage(document) ]_vars

\* next has moved the view from page 1 to page 2 at level 1.2 in mode custom
C13_Witness ==
    /\ ret.op = "goToNextPage" /\ ret.old.currentPage = 1 /\ currentPage = 2
    /\ GetCurrentPage(document) = 2
    /\ zoomLevel = <<6, 5>> /\ fitMode = "custom"

NoReadableLine(f) == f.exists /\ ExtractReadableText(f.raw) = <<>>

\* C15: loading a MOBI file with no readable line succeeds with one page, and
\* GetPageContent(1) returns the placeholder string.
C15_PlaceholderPage ==
    (ret.op = "LoadDocument" /\ NoReadableLine(probe))
        => /\ ret.err = "nil"
           /\ GetPageCount(document) = 1
           /\ GetPageContent(document, 1).err = "nil"
           /\ JoinWords(GetPageContent(document, 1).content.words) = Placeholder

\* What holds of such a file: the page is the placeholder's words with one
\* space between them, the line break of the placeholder being lost.
PlaceholderWordsPage ==
    (ret.op = "LoadDocument" /\ NoReadableLine(probe))
        => /\ ret.err = "nil"
           /\ GetPageCount(document) = 1
           /\ GetPageContent(document, 1).err = "nil"
           /\ GetPageContent(document, 1).content.words = Fields(Placeholder, 0)
           /\ RunLen(JoinWords(Fields(Placeholder, 0))) = RunLen(Placeholder) - 1

\* C16: loading a .mobi file that can be opened succeeds whatever it holds,
\* and the Document has at least one page, each page a text that is not
\* empty and that GetPageContent returns without error.
C16_MobiAlwaysLoads ==
    (ret.op = "LoadDocument" /\ probe.exists)
        => /\ ret.err = "nil"
           /\ GetType(document) = TypeMOBI
           /\ GetPageCount(document) >= 1
           /\ \A p \in 1..GetPageCount(document) :
                /\ GetPageContent(document, p).err = "nil"
                /\ GetPageContent(document, p).content.words # <<>>

\* a file of three bytes that are not printable was loaded
C16_Witness ==
    /\ ret.op = "LoadDocument" /\ ret.err = "nil"
    /\ probe.exists /\ probe.raw = << <<"b", 1>>, <<"b", 1>>, <<"b", 1>> >>
    /\ GetPageCount(document) = 1

\* the spine item idref names a content document that is read from the archive
ReadFromZip(f, idref) ==
    /\ ManifestIndex(f.manifest, idref) # 0
    /\ f.manifest[ManifestIndex(f.manifest, idref)].mediaType \in HtmlMediaTypes
    /\ f.manifest[ManifestIndex(f.manifest, idref)].inZip

\* no spine item of f has a text that is not empty
YieldsNoPage(f) ==
    \A i \in 1..Len(f.spine) :
        ReadFromZip(f, f.spine[i])
            => TextOf(f.manifest[ManifestIndex(f.manifest, f.spine[i])].html) = <<>>

\* C17: loading an EPUB whose container.xml is missing or has no full-path,
\* whose OPF is missing or malformed, or whose spine yields no page that is
\* not empty, fails with an error and leaves the manager as it was; no
\* Document of zero pages is returned.
C17_EpubFailsWithError ==
    [][ /\ (/\ ret'.op = "LoadDocument" /\ ret'.path = PathRE /\ probe.zipOpens
            /\ (probe.container # "ok" \/ probe.opf # "ok" \/ YieldsNoPage(probe)))
                => /\ ret'.err = "failed to parse EPUB"
                   /\ UNCHANGED <<document, filename>>
        /\ (ret'.op = "LoadDocument" /\ document' # NilDoc)
                => GetPageCount(document') >= 1 ]_vars

\* What holds: the error is returned when the container or the OPF is broken
\* or no spine item is read from the archive; once one is read, the script
\* and style pattern is compiled and the load panics.
EpubFailsOrPanics ==
    [][ /\ (/\ ret'.op = "LoadDocument" /\ ret'.path = PathRE /\ probe.zipOpens
            /\ (\/ probe.container # "ok" \/ probe.opf # "ok"
                \/ \A i \in 1..Len(probe.spine) : ~ReadFromZip(probe, probe.spine[i])))
                => /\ ret'.err = "failed to parse EPUB"
                   /\ UNCHANGED <<document, filename>>
        /\ (/\ ret'.op = "LoadDocument" /\ ret'.path = PathRE /\ probe.zipOpens
            /\ probe.container = "ok" /\ probe.opf = "ok"
            /\ \E i \in 1..Len(probe.spine) : ReadFromZip(probe, probe.spine[i]))
                => (ret'.err = "panic" /\ panicked' /\ UNCHANGED <<document, filename>>)
        /\ (ret'.op = "LoadDocument" /\ document' # NilDoc)
                => GetPageCount(document') >= 1 ]_vars


\* f is a minimal valid EPUB: container.xml points at a well formed OPF whose
\* spine has one item, a content document of simple HTML with some text
MinimalEpub(f) ==
    /\ f.zipOpens /\ f.container = "ok" /\ f.opf = "ok"
    /\ Len(f.spine) = 1
    /\ ReadFromZip(f, f.spine[1])
    /\ TextOf(f.manifest[ManifestIndex(f.manifest, f.spine[1])].html) # <<>>

\* C18: loading a minimal valid EPUB succeeds with a page count of 1, and
\* the content of page 1 is the text of the HTML body with its tags stripped
\* and its entities decoded.
C18_EpubRoundTrip ==
    (ret.op = "LoadDocument" /\ ret.path = PathRE /\ MinimalEpub(probe))
        => /\ ret.err = "nil"
           /\ GetType(document) = TypeEPUB
           /\ GetPageCount(document) = 1
           /\ GetPageContent(document, 1).err = "nil"
           /\ GetPageContent(document, 1).content
                = TrimSpace(CollapseSpace(UnescapeString(StripTags(
                    probe.manifest[ManifestIndex(probe.manifest, probe.spine[1])].html))))

\* What holds: the load of a minimal valid EPUB panics, and no EPUB document
\* is ever installed in the manager.
MinimalEpubPanics ==
    /\ (ret.op = "LoadDocument" /\ ret.path = PathRE /\ MinimalEpub(probe))
            => (ret.err = "panic" /\ panicked)
    /\ GetType(document) # TypeEPUB


\* the handler op, given path, reaches the call of loadDocument
CallsLoadDocument(op, path) ==
    \/ op = "openDocument" /\ Disk(path).exists /\ IsSupportedFormat(path)
    \/ op = "handleFileDrop" /\ IsSupportedFormat(path)

\* C19: when loadDocument fails in the UI, the error is shown in a modal and
\* the Document loaded before, currentPage, zoomLevel and fitMode are left
\* as they were, so that the reading session continues.
C19_FailedLoadShowsModal ==
    [][ (CallsLoadDocument(ret'.op, ret'.path) /\ LoadDocument(DM, ret'.path).err # "nil")
            => /\ ret'.modal = "Load Error"
               /\ ~panicked'
               /\ UNCHANGED <<document, filename, currentPage, zoomLevel, fitMode>> ]_vars

\* What holds: a load that returns an error shows the modal and changes
\* nothing; a load that panics shows no modal.
ReturnedErrorShowsModal ==
    [][ /\ (/\ CallsLoadDocument(ret'.op, ret'.path)
            /\ LoadDocument(DM, ret'.path).err \notin {"nil", "panic"})
                => /\ ret'.modal = "Load Error"
                   /\ ~panicked'
                   /\ UNCHANGED <<document, filename, currentPage, zoomLevel, fitMode,
                                  scrollZoomMode, pdfImage, navEnabled>>
        /\ (/\ CallsLoadDocument(ret'.op, ret'.path)
            /\ LoadDocument(DM, ret'.path).err = "panic")
                => (ret'.modal = "none" /\ panicked') ]_vars


\* C20: SetCurrentPage(p) of a reader's Document with p < 1 or p > pageCount
\* returns the out-of-range error and leaves currentPage unchanged; with p
\* in range it returns no error and sets currentPage to p.  The Document is
\* that of whichever reader built it.
C20_SetCurrentPageChecksRange ==
    [][ ret'.op = "SetCurrentPage"
            => IF ret'.page < 1 \/ ret'.page > GetPageCount(document)
               THEN /\ ret'.err = "out of range"
                    /\ document' = document
               ELSE /\ ret'.err = "nil"
                    /\ document'.currentPage = ret'.page
                    /\ document' = [document EXCEPT !.currentPage = ret'.page] ]_vars

\* a MOBI Document moved to page 2 has refused the page after its last one
C20_Witness ==
    /\ ret.op = "SetCurrentPage" /\ ret.err = "out of range"
    /\ document.type = TypeMOBI /\ document.currentPage = 2
    /\ ret.page = GetPageCount(document) + 1


\* C21: closing a Document is idempotent: a second Close returns no error,
\* releases no engine or archive handle a second time, and leaves the
\* Document as the first Close left it.
C21_CloseIdempotent ==
    [][ /\ ret'.op = "Document.Close" => ret'.err = "nil"
        /\ (ret.op = "Document.Close" /\ ret'.op = "Document.Close")
                => (ret'.released = 0 /\ document' = document)
        /\ ret'.op = "Document.Close"
                => /\ DocumentClose(document').doc = document'
                   /\ DocumentClose(document').released = 0
                   /\ DocumentClose(document').err = "nil" ]_vars

\* a PDF Document whose handle the first Close released has been closed again
C21_Witness ==
    /\ ret.op = "Document.Close" /\ ret.err = "nil" /\ ret.released = 0
    /\ document.type = TypePDF /\ ~document.handle /\ document.pageCount = 3


\* the type that the extension of path names, compared without regard to case
TypeOfExtension(path) ==
    CASE ToLower(Ext(path)) = <<".", "p", "d", "f">> -> TypePDF
      [] ToLower(Ext(path)) = <<".", "e", "p", "u", "b">> -> TypeEPUB
      [] ToLower(Ext(path)) = <<".", "m", "o", "b", "i">> -> TypeMOBI
      [] OTHER -> Nil

\* C22: LoadDocument dispatches on the extension of the path compared
\* case-insensitively; after a successful LoadDocument the owned Document's
\* GetType() is the type of that extension, and the type of a Document never
\* changes after construction.
C22_TypeFollowsExtension ==
    [][ /\ ret'.op = "LoadDocument" => ret'.reader = TypeOfExtension(ret'.path)
        /\ (ret'.op = "LoadDocument" /\ ret'.err = "nil")
                => /\ GetType(document') = TypeOfExtension(ret'.path)
                   /\ GetType(document') \in {TypePDF, TypeEPUB, TypeMOBI}
        /\ ret'.op \notin {"LoadDocument", "Close"}
                => GetType(document') = GetType(document)
        /\ document' # NilDoc => GetType(document') = TypeOfExtension(filename') ]_vars

\* b.PDF, its extension in capitals, has replaced a Document as a PDF
C22_Witness ==
    /\ ret.op = "LoadDocument" /\ ret.path = PathB /\ ret.err = "nil" /\ ret.was
    /\ GetType(document) = TypePDF /\ ret.reader = TypePDF


\* the texts of the spine items i.. of f that are content documents read from
\* the archive and have a text that is not empty, in spine order
RECURSIVE SpineTexts(_, _)
SpineTexts(f, i) ==
    IF i > Len(f.spine) THEN <<>>
    ELSE IF /\ ReadFromZip(f, f.spine[i])
            /\ TextOf(f.manifest[ManifestIndex(f.manifest, f.spine[i])].html) # <<>>
         THEN <<TextOf(f.manifest[ManifestIndex(f.manifest, f.spine[i])].html)>>
                  \o SpineTexts(f, i + 1)
         ELSE SpineTexts(f, i + 1)

\* C23: the pages of an EPUB are, in spine order, the extracted texts of
\* exactly those spine items whose manifest entry is of media type
\* application/xhtml+xml or text/html and whose text is not empty; the other
\* spine items contribute no page.
C23_PagesFollowSpine ==
    (/\ ret.op = "LoadDocument" /\ ret.path = PathRE
     /\ probe.zipOpens /\ probe.container = "ok" /\ probe.opf = "ok"
     /\ SpineTexts(probe, 1) # <<>>)
        => /\ ret.err = "nil"
           /\ GetPageCount(document) = Len(SpineTexts(probe, 1))
           /\ \A p \in 1..Len(SpineTexts(probe, 1)) :
                GetPageContent(document, p).content = TextPage(SpineTexts(probe, 1)[p])


\* the words of the pages i.. of doc, one after the other
RECURSIVE PageWords(_, _)
PageWords(doc, i) ==
    IF i > Len(doc.pages) THEN <<>> ELSE doc.pages[i].words \o PageWords(doc, i + 1)

\* the words of the text that extractBasicContent hands to splitIntoPages
WordsOf(f) ==
    IF ExtractReadableText(f.raw) = <<>> THEN Fields(Placeholder, 0)
    ELSE ExtractReadableText(f.raw)

\* C24: splitIntoPages breaks only between words: the pages of a MOBI
\* Document are the words of its text in order, every page is not empty and
\* is at most 2000 characters long, except a page that is one single word
\* longer than 2000 characters.
C24_PagesSplitOnWords ==
    GetType(document) = TypeMOBI
        => /\ PageWords(document, 1) = WordsOf(Disk(filename))
           /\ \A p \in 1..GetPageCount(document) :
                /\ document.pages[p].words # <<>>
                /\ \A w \in 1..Len(document.pages[p].words) : document.pages[p].words[w] >= 1
                /\ \/ PageLen(document.pages[p].words) <= 2000
                   \/ /\ Len(document.pages[p].words) = 1
                      /\ document.pages[p].words[1] > 2000

\* a text of two words, 2007 characters long, has been split into two pages
C24_Witness ==
    /\ ret.op = "LoadDocument" /\ ret.err = "nil" /\ GetType(document) = TypeMOBI
    /\ WordsOf(Disk(filename)) = <<1995, 11>>
    /\ GetPageCount(document) = 2
    /\ document.pages[1].words = <<1995>> /\ document.pages[2].words = <<11>>


\* C25: a double-click on the viewer switches from mode page to mode custom
\* and from mode width or custom to mode page, each time at zoom 1.0; two
\* double-clicks starting in mode page end in mode page.
C25_DoubleClickToggles ==
    [][ /\ ret'.op = "DoubleTapped"
            => /\ zoomLevel' = One
               /\ fitMode = "page" => fitMode' = "custom"
               /\ fitMode \in {"width", "custom"} => fitMode' = "page"
        /\ (ret.op = "DoubleTapped" /\ ret'.op = "DoubleTapped" /\ ret.old.fitMode = "page")
            => (fitMode' = "page" /\ zoomLevel' = One) ]_vars

\* a double-click in mode custom at a zoom other than 1.0 has fitted the page
C25_Witness ==
    /\ ret.op = "DoubleTapped" /\ ret.was
    /\ ret.old.fitMode = "custom" /\ ret.old.zoomLevel # One
    /\ fitMode = "page" /\ zoomLevel = One


\* C26: a successful loadDocument leaves the UI's currentPage and the new
\* Document's current page equal to 1, whatever page the Document loaded
\* before was on.
C26_LoadResetsToFirstPage ==
    [][ (CallsLoadDocument(ret'.op, ret'.path) /\ LoadDocument(DM, ret'.path).err = "nil")
            => /\ currentPage' = 1
               /\ GetCurrentPage(document') = 1
               /\ filename' = ret'.path ]_vars

\* a.pdf has been loaded over a Document that was shown on its page 3
C26_Witness ==
    /\ ret.op = "openDocument" /\ ret.path = PathA /\ ret.was /\ ret.old.currentPage = 3
    /\ filename = PathA /\ currentPage = 1 /\ GetCurrentPage(document) = 1


\* C27: whenever a document is loaded in the UI, the UI's currentPage is the
\* owned Document's GetCurrentPage(), after every operation: a load, a
\* navigation, a go-to-page with valid or invalid input, a zoom, a failed
\* reload.
C27_PageInSyncWithDocument ==
    IsLoaded(DM) => currentPage = GetCurrentPage(GetDocument(DM))

\* a page number beyond the last page typed over a Document on page 2
C27_Witness ==
    /\ ret.op = "goToPageFromEntry" /\ ret.was /\ ret.page > GetPageCount(document)
    /\ ret.old.currentPage = 2 /\ currentPage = 2 /\ GetCurrentPage(document) = 2


\* C28: in every reachable view state fitMode is one of page, width and
\* custom, and in mode page or width the zoomLevel is exactly 1.0: a level
\* other than 1.0 is held in mode custom only.
C28_FitModesHoldUnitZoom ==
    /\ fitMode \in {"page", "width", "custom"}
    /\ fitMode \in {"page", "width"} => zoomLevel = One
    /\ zoomLevel # One => fitMode = "custom"

\* fit-to-page has been chosen at a zoom other than 1.0
C28_Witness ==
    /\ ret.op = "fitToPage" /\ ret.old.fitMode = "custom" /\ ret.old.zoomLevel # One
    /\ fitMode = "page" /\ zoomLevel = One


\* no Close has been called on doc: a Close would still change it
NeverClosed(doc) == CloseDocument(doc) # doc

\* C29: after any sequence of LoadDocument and Close calls of the manager,
\* GetDocument() is nil or a Document on which Close has never been called;
\* no page is asked of a released engine.
C29_ManagerHidesClosedDocument ==
    /\ IsLoaded(DM) => NeverClosed(GetDocument(DM))
    /\ ret.op = "GetPageContent" => ret.err # "panic"

\* a page is rendered from the Document that a reload has installed
C29_Witness ==
    /\ ret.op = "GetPageContent" /\ ret.err = "nil" /\ leaked = 1
    /\ GetType(document) = TypePDF /\ NeverClosed(document)


\* C30: while no document is loaded, no navigation or zoom action reachable
\* by button, keyboard shortcut, mouse wheel or double-click changes
\* currentPage, zoomLevel or fitMode: the view state stays at its initial
\* values until a load succeeds.
C30_EmptyViewStateFrozen ==
    [][ (~IsLoaded(DM) /\ ret'.op \in PageOps \cup ZoomFitOps \cup {"Scrolled", "DoubleTapped"})
            => /\ UNCHANGED <<currentPage, zoomLevel, fitMode>>
               /\ currentPage = 1 /\ zoomLevel = One /\ fitMode = "page" ]_vars

\* What holds: without a document the navigation handlers and wheel paging
\* change nothing and currentPage stays 1; the zoom handlers act as they do
\* with a document.
EmptyNavigationFrozen ==
    [][ (~IsLoaded(DM) /\ ret'.op \in PageOps)
            => (UNCHANGED <<currentPage, zoomLevel, fitMode>> /\ currentPage = 1) ]_vars

====
